---- MODULE Spec2Model ----
(***************************************************************************)
(* AMDGPUAttributePass (src/AMDGPUAttributePass.cpp): the scan that finds  *)
(* the kernel entry functions of a Module, the annotation loop, and the    *)
(* two pass-manager adapters that call the shared routine visitor().       *)
(*                                                                         *)
(* A Module is a list M of Function objects.  A Function is known by its   *)
(* identity (its index in fn); fn[f] holds its name, its instructions, the *)
(* number of its non-instruction users and its heap address; attrs[f] is   *)
(* its attribute set, a bag so that a duplicated attribute would show.     *)
(***************************************************************************)
EXTENDS Integers, Sequences, FiniteSets, Bags, TLC

\* ------------------------------------------------------------- bounds
\* User functions in a unit (Spec, SpecPair).
MaxFuncs == 2
\* Invocations of the pass on the same unit (Spec).
MaxRuns == 2
\* User functions in a unit of SpecMany (from SmallSize up to this many).
MaxMany == 9

\* ------------------------------------------------- program constants
\* SmallPtrSet<Function *, 8>: the inline capacity of KernelEntryFunctions.
SmallSize == 8
\* The bucket count SmallPtrSet grows to when it leaves its inline array.
NumBuckets == 128
\* Where the allocator may put the Function objects: the address of the first
\* and the distance between consecutive allocations (16-byte aligned).
HeapLayouts == {[base |-> 0, stride |-> 128], [base |-> 1600, stride |-> 128],
                [base |-> 4096, stride |-> 144]}

KernelInitName == "__kmpc_target_init"
KernelDeinitName == "__kmpc_target_deinit"
MarkerNames == {KernelInitName, KernelDeinitName}
\* The attribute F->addFnAttr() attaches, and some other attribute.
TargetAttr == "target-attr"
OtherAttr == "nounwind"
UserNames == <<"A", "B", "C", "D", "E", "F", "G", "H", "I", "J", "K", "L">>

VARIABLES
  M,                     \* the Module's function list (stored order)
  fn,                    \* Function objects, by identity
  attrs,                 \* attribute set of each Function
  outs,                  \* the lines written to outs() so far
  pc,                    \* "idle" | "scan" | "annotate" | "done"
  adapter,               \* the adapter that entered visitor: "legacy" | "modern"
  i,                     \* position of the scan loop in M
  j,                     \* position of the annotation loop in the set
  KernelEntryFunctions,  \* the SmallPtrSet
  ret,                   \* what the adapter returned
  runs,                  \* completed invocations
  driver,                \* how the host invokes the pass: "rerun" | "pair" | "many"
  heap,                  \* the allocator's layout of Function objects
  input,                 \* the unit as loaded, for a second identical copy
  perm,                  \* the permutation the current copy was loaded with
  pre,                   \* history: attrs when the current run started
  mark,                  \* history: Len(outs) when the current run started
  annotated,             \* history: addFnAttr calls of the current run, per Function
  classified,            \* history: Functions classified in the current run
  resolved,              \* history: the declaration pairs resolved in the current run
  log                    \* history: one record per completed run

vars == <<M, fn, attrs, outs, pc, adapter, i, j, KernelEntryFunctions, ret, runs,
          driver, heap, input, perm, pre, mark, annotated, classified, resolved, log>>

Range(s) == {s[k] : k \in DOMAIN s}

\* ------------------------------------------------------ use lists
\* The users of value d: its non-instruction users (constants), then every
\* instruction of every function that has d as an operand.
RECURSIVE InstUsers(_, _, _)
InstUsers(fs, d, f) ==
  IF f > Len(fs) THEN <<>>
  ELSE LET mine == SelectSeq(fs[f].body, LAMBDA ins : ins.to = d)
       IN [k \in 1..Len(mine) |-> [inst |-> TRUE, op |-> mine[k].op, fn |-> f]]
          \o InstUsers(fs, d, f + 1)

UseList(fs, d) ==
  [k \in 1..fs[d].constUsers |-> [inst |-> FALSE, op |-> "const", fn |-> 0]]
    \o InstUsers(fs, d, 1)

\* for(Use &U : Callee->uses()) if(I = dyn_cast<Instruction>(U.getUser()))
\*   if(I->getFunction() == &F) { flag = true; break; }
RECURSIVE UsedIn(_, _, _)
UsedIn(us, k, F) ==
  IF k > Len(us) THEN FALSE
  ELSE IF us[k].inst /\ us[k].fn = F THEN TRUE
  ELSE UsedIn(us, k + 1, F)

IsKernelEntry(fs, F, KernelInit, KernelDeinit) ==
  LET CallsTargetInit == UsedIn(UseList(fs, KernelInit), 1, F)
      CallsTargetDeinit == UsedIn(UseList(fs, KernelDeinit), 1, F)
  IN CallsTargetInit /\ CallsTargetDeinit

\* ------------------------------------- getOrCreateRuntimeFunction
\* The declaration named nm in the module, or 0.
Lookup(m, fs, nm) ==
  IF \E k \in DOMAIN m : fs[m[k]].name = nm
  THEN CHOOSE f \in Range(m) : fs[f].name = nm
  ELSE 0

NewDecl(fs, nm) ==
  [name |-> nm, body |-> <<>>, constUsers |-> 0,
   addr |-> fs[Len(fs)].addr + heap.stride]

\* The module after resolving nm: the declaration is appended if absent.
Resolve(u, nm) ==
  IF Lookup(u.M, u.fn, nm) # 0
  THEN [M |-> u.M, fn |-> u.fn, attrs |-> u.attrs, id |-> Lookup(u.M, u.fn, nm)]
  ELSE [M |-> Append(u.M, Len(u.fn) + 1),
        fn |-> Append(u.fn, NewDecl(u.fn, nm)),
        attrs |-> Append(u.attrs, EmptyBag),
        id |-> Len(u.fn) + 1]

\* ------------------------------------------- SmallPtrSet<Function *, 8>
\* DenseMapInfo<void *>::getHashValue: (p >> 4) ^ (p >> 9).
RECURSIVE Xor(_, _)
Xor(a, b) ==
  IF a = 0 THEN b
  ELSE IF b = 0 THEN a
  ELSE (((a % 2) + (b % 2)) % 2) + 2 * Xor(a \div 2, b \div 2)

Bucket(p) == Xor(p \div 16, p \div 512) % NumBuckets

\* FindBucketFor: quadratic probing from the hash bucket to the first empty
\* bucket (0) or the bucket that holds f.
RECURSIVE Probe(_, _, _, _)
Probe(arr, f, b, amt) ==
  IF arr[b + 1] = 0 \/ arr[b + 1] = f THEN b
  ELSE Probe(arr, f, (b + amt) % NumBuckets, amt + 1)

Put(fs, arr, f) == [arr EXCEPT ![Probe(arr, f, Bucket(fs[f].addr), 1) + 1] = f]

\* Grow: every element of the inline array is rehashed, in array order.
RECURSIVE Rehash(_, _, _, _)
Rehash(fs, old, k, arr) ==
  IF k > Len(old) THEN arr ELSE Rehash(fs, old, k + 1, Put(fs, arr, old[k]))

EmptySet == [small |-> TRUE, arr |-> <<>>]

\* The elements in iteration order: the inline array in insertion order, or the
\* buckets in index order.
Elements(S) == IF S.small THEN S.arr ELSE SelectSeq(S.arr, LAMBDA x : x # 0)

Members(S) == Range(Elements(S))

\* insert_imp / insert_imp_big.
Insert(fs, S, f) ==
  IF f \in Members(S) THEN S
  ELSE IF S.small /\ Len(S.arr) < SmallSize
    THEN [small |-> TRUE, arr |-> Append(S.arr, f)]
  ELSE IF S.small
    THEN [small |-> FALSE,
          arr |-> Put(fs, Rehash(fs, S.arr, 1, [k \in 1..NumBuckets |-> 0]), f)]
  ELSE [small |-> FALSE, arr |-> Put(fs, S.arr, f)]

\* ---------------------------------------------------------- attributes
HasFnAttr(B, a) == BagIn(a, B)

addFnAttrAgain(B, a) == B (+) SetToBag({a})

\* Function::addFnAttr: an attribute set holds each kind once.
addFnAttr(B, a) == IF HasFnAttr(B, a) THEN B ELSE B (+) SetToBag({a})

\* ------------------------------------------------------------- units
Call(t) == [op |-> "call", to |-> t]
Store(t) == [op |-> "store", to |-> t]

\* Function bodies, as the instructions that have a function as an operand:
\* a call of it, or a store of its address (a use that is not a call).  "next"
\* is the following user function of the unit (the first, after the last).
Shapes ==
  { <<>>,
    <<Call(KernelInitName)>>,
    <<Call(KernelDeinitName)>>,
    <<Call(KernelInitName), Call(KernelDeinitName)>>,
    <<Call(KernelInitName), Call(KernelInitName), Call(KernelDeinitName)>>,
    <<Call("next")>>,
    <<Store(KernelInitName), Call(KernelDeinitName)>>,
    <<Call("next"), Store(KernelInitName), Store(KernelDeinitName)>> }

ManyShapes == { <<>>, <<Call(KernelInitName), Call(KernelDeinitName)>> }

\* A unit of N user functions with bodies sh.  The markers a body refers to
\* are declared after the user functions; with declAll both are declared and
\* kernel-init also has a user that is not an instruction.  User function k
\* already carries the target attribute, the ones before it another one.
BuildUnit(N, sh, declAll, k, lay) ==
  LET Ref == {m \in MarkerNames :
                \E f \in 1..N : \E x \in 1..Len(sh[f]) : sh[f][x].to = m}
      D == IF declAll THEN MarkerNames ELSE Ref
      initId == IF KernelInitName \in D THEN N + 1 ELSE 0
      deinitId == IF KernelDeinitName \in D THEN N + Cardinality(D) ELSE 0
      Operand(f, t) == IF t = KernelInitName THEN initId
                       ELSE IF t = KernelDeinitName THEN deinitId
                       ELSE (f % N) + 1
      NameOf(id) == IF id <= N THEN UserNames[id]
                    ELSE IF id = initId THEN KernelInitName ELSE KernelDeinitName
      BodyOf(id) == IF id <= N
                    THEN [x \in 1..Len(sh[id]) |->
                            [op |-> sh[id][x].op, to |-> Operand(id, sh[id][x].to)]]
                    ELSE <<>>
      n == N + Cardinality(D)
  IN [M |-> [id \in 1..n |-> id],
      fn |-> [id \in 1..n |->
                [name |-> NameOf(id), body |-> BodyOf(id),
                 constUsers |-> IF declAll /\ id = initId THEN 1 ELSE 0,
                 addr |-> lay.base + lay.stride * (id - 1)]],
      attrs |-> [id \in 1..n |->
                   IF id > N \/ id > k THEN EmptyBag
                   ELSE IF id = k THEN SetToBag({OtherAttr, TargetAttr})
                   ELSE SetToBag({OtherAttr})]]

InitWith(d, u, lay) ==
  /\ M = u.M /\ fn = u.fn /\ attrs = u.attrs
  /\ outs = <<>> /\ pc = "idle" /\ adapter = "none"
  /\ i = 1 /\ j = 1 /\ KernelEntryFunctions = EmptySet
  /\ ret = "none yet" /\ runs = 0 /\ driver = d /\ heap = lay
  /\ input = u /\ perm = [x \in 1..Len(u.M) |-> x]
  /\ pre = u.attrs /\ mark = 0 /\ annotated = EmptyBag
  /\ classified = {} /\ resolved = {} /\ log = <<>>

Layout0 == CHOOSE l \in HeapLayouts : l.base = 0

Init ==
  \E N \in 0..MaxFuncs : \E sh \in [1..N -> Shapes] :
    \E declAll \in BOOLEAN : \E k \in {0, N} :
      InitWith("rerun", BuildUnit(N, sh, declAll, k, Layout0), Layout0)

\* Two identical copies of a unit, the second loaded in a permuted order.
InitPair ==
  \E N \in 0..MaxFuncs : \E sh \in [1..N -> Shapes] :
    InitWith("pair", BuildUnit(N, sh, FALSE, 0, Layout0), Layout0)

\* Units with more functions than the set's inline capacity.
InitMany ==
  \E N \in SmallSize..MaxMany : \E sh \in [1..N -> ManyShapes] :
    \E lay \in HeapLayouts :
      InitWith("many", BuildUnit(N, sh, FALSE, 0, lay), lay)

\* ------------------------------------------------------------- visitor
Line(f) == <<"Kernel entry function ", fn[f].name>>

DiagnosticsPerUse(F) == [x \in 1..Len(fn[F].body) |-> Line(F)]

\* The lines the annotation loop writes for F.
Diagnostics(F) == <<Line(F)>>

RunLimit == IF driver = "rerun" THEN MaxRuns ELSE IF driver = "pair" THEN 2 ELSE 1

\* An adapter's entry into visitor(M): OMPBuilder and an empty set.
EnterAt(a, start) ==
  /\ pc = "idle" \/ (pc = "done" /\ driver = "rerun")
  /\ runs < RunLimit
  /\ driver = "pair" => a # adapter
  /\ adapter' = a /\ pc' = start /\ i' = 1 /\ j' = 1
  /\ KernelEntryFunctions' = EmptySet
  /\ pre' = attrs /\ mark' = Len(outs) /\ annotated' = EmptyBag
  /\ classified' = {} /\ resolved' = {}
  /\ UNCHANGED <<M, fn, attrs, outs, ret, runs, driver, heap, input, perm, log>>

\* visitor(M) starts with the scan loop.
Enter(a) == EnterAt(a, "scan")

runOnModuleUnscanned == EnterAt("legacy", "annotate")

\* LegacyAMDGPUAttributePass::runOnModule calls visitor(M).
runOnModule == Enter("legacy")

\* AMDGPUAttributePass::run calls visitor(M).
run == Enter("modern")

ScanFinishedAfterFirst == i > Len(M) \/ i > 1

ScanStopsBeforeLast == i >= Len(M)

\* for(Function &F : M): the loop has reached the end of the list.
ScanFinished == i > Len(M)

\* One iteration of the scan loop: IsKernelEntry(F) resolves both markers
\* (appending a declaration that is absent), then walks their use lists.
ScanStep ==
  /\ pc = "scan" /\ ~ScanFinished
  /\ LET F == M[i]
         r1 == Resolve([M |-> M, fn |-> fn, attrs |-> attrs], KernelInitName)
         r2 == Resolve(r1, KernelDeinitName)
     IN /\ M' = r2.M /\ fn' = r2.fn /\ attrs' = r2.attrs
        /\ KernelEntryFunctions' =
             IF IsKernelEntry(r2.fn, F, r1.id, r2.id)
             THEN Insert(r2.fn, KernelEntryFunctions, F)
             ELSE KernelEntryFunctions
        /\ classified' = classified \cup {F}
        /\ resolved' = resolved \cup {<<r1.id, r2.id>>}
  /\ i' = i + 1
  /\ UNCHANGED <<outs, pc, adapter, j, ret, runs, driver, heap, input, perm, pre,
                 mark, annotated, log>>

ScanDone ==
  /\ pc = "scan" /\ ScanFinished
  /\ pc' = "annotate" /\ j' = 1
  /\ UNCHANGED <<M, fn, attrs, outs, adapter, i, KernelEntryFunctions, ret, runs,
                 driver, heap, input, perm, pre, mark, annotated, classified,
                 resolved, log>>

AllFunctions == M

\* The functions the annotation loop visits, in its order.
Targets == Elements(KernelEntryFunctions)

\* One iteration of for(Function *F : KernelEntryFunctions).
AnnotateStep ==
  /\ pc = "annotate" /\ j <= Len(Targets)
  /\ LET F == Targets[j]
     IN /\ outs' = outs \o Diagnostics(F)
        /\ attrs' = [attrs EXCEPT ![F] = addFnAttr(@, TargetAttr)]
        /\ annotated' = annotated (+) SetToBag({F})
  /\ j' = j + 1
  /\ UNCHANGED <<M, fn, pc, adapter, i, KernelEntryFunctions, ret, runs, driver,
                 heap, input, perm, pre, mark, classified, resolved, log>>

runOnModuleResultIfAnnotated == Targets # <<>>

\* return true;
runOnModuleResult == TRUE

\* return PreservedAnalyses::none();
runResult == "none"

RunRecord(r) ==
  [adapter |-> adapter, perm |-> perm, M |-> M,
   entries |-> Members(KernelEntryFunctions),
   lines |-> SubSeq(outs, mark + 1, Len(outs)),
   pre |-> pre, post |-> attrs, annotated |-> annotated, ret |-> r]

Return(a, r) ==
  /\ pc = "annotate" /\ j > Len(Targets) /\ adapter = a
  /\ ret' = r /\ runs' = runs + 1 /\ pc' = "done"
  /\ log' = Append(log, RunRecord(r))
  /\ KernelEntryFunctions' = EmptySet
  /\ UNCHANGED <<M, fn, attrs, outs, adapter, i, j, driver, heap, input, perm, pre,
                 mark, annotated, classified, resolved>>

runOnModuleReturn == Return("legacy", runOnModuleResult)

runReturn == Return("modern", runResult)

\* The orders a second copy of the unit is loaded in: the rotations (the
\* identity among them), the reversal and the swaps of two neighbours.
Perms(n) ==
  {[x \in 1..n |-> ((x - 1 + r) % n) + 1] : r \in 0..(n - 1)}
    \cup {[x \in 1..n |-> n + 1 - x]}
    \cup {[x \in 1..n |-> IF x = s THEN s + 1 ELSE IF x = s + 1 THEN s ELSE x] :
            s \in 1..(n - 1)}

\* The host loads a second, identical copy of the input unit, its functions
\* stored in the order p.
Reload ==
  /\ driver = "pair" /\ pc = "done" /\ runs = 1
  /\ \E p \in Perms(Len(input.M)) :
       /\ M' = [x \in 1..Len(input.M) |-> input.M[p[x]]]
       /\ perm' = p
  /\ fn' = input.fn /\ attrs' = input.attrs /\ pc' = "idle"
  /\ UNCHANGED <<outs, adapter, i, j, KernelEntryFunctions, ret, runs, driver, heap,
                 input, pre, mark, annotated, classified, resolved, log>>

Next ==
  \/ runOnModule
  \/ run
  \/ ScanStep
  \/ ScanDone
  \/ AnnotateStep
  \/ runOnModuleReturn
  \/ runReturn

Spec == Init /\ [][Next]_vars

NextPair == Next \/ Reload

SpecPair == InitPair /\ [][NextPair]_vars

SpecMany == InitMany /\ [][Next]_vars

\* ---------------------------------------------------------------- claims
\* F contains a direct call of the declaration named nm.
CallsDirectly(F, nm) ==
  \E x \in DOMAIN fn[F].body :
    fn[F].body[x].op = "call" /\ fn[fn[F].body[x].to].name = nm

CallsBothDirectly(F) ==
  CallsDirectly(F, KernelInitName) /\ CallsDirectly(F, KernelDeinitName)

\* F has an instruction that refers to the declaration named nm.
RefersTo(F, nm) ==
  \E x \in DOMAIN fn[F].body : fn[fn[F].body[x].to].name = nm

\* G contains a direct call of H.
CallsFunction(G, H) ==
  \E x \in DOMAIN fn[G].body : fn[G].body[x].op = "call" /\ fn[G].body[x].to = H

Runs == {log[r] : r \in DOMAIN log}

Gained(r) ==
  {f \in DOMAIN r.pre : ~BagIn(TargetAttr, r.pre[f]) /\ BagIn(TargetAttr, r.post[f])}

\* C1: after the scan, a function of the unit is in KernelEntryFunctions if
\* and only if it contains a direct call of kernel-init and a direct call of
\* kernel-deinit; a use of a marker that is not a call does not count.
C1_EntryIffDirectCalls ==
  pc = "annotate" =>
    \A F \in Range(M) : F \in Members(KernelEntryFunctions) <=> CallsBothDirectly(F)

C3_AdaptersAgree ==
  (Len(log) = 2 /\ log[2].perm = [x \in DOMAIN log[2].perm |-> x]) =>
    /\ log[1].adapter # log[2].adapter
    /\ log[2].pre = input.attrs
    /\ log[1].entries = log[2].entries
    /\ log[1].post = log[2].post
    /\ log[1].lines = log[2].lines
    /\ log[1].M = log[2].M

C3_Witness ==
  /\ Len(log) = 2
  /\ log[2].perm = [x \in DOMAIN log[2].perm |-> x]
  /\ log[1].adapter = "legacy" /\ log[2].adapter = "modern"
  /\ log[1].entries # {}
  /\ Gained(log[2]) # {}

\* C4: a function without a direct call of either marker that calls a helper
\* which calls both markers is not in the entry set and gets no attribute.
C4_HelperCallerExcluded ==
  \A r \in Runs : \A G, H \in DOMAIN r.pre :
    ( /\ ~CallsDirectly(G, KernelInitName)
      /\ ~CallsDirectly(G, KernelDeinitName)
      /\ CallsFunction(G, H)
      /\ CallsBothDirectly(H) )
    => (G \notin r.entries /\ r.post[G] = r.pre[G])

\* C5, as stated: a run leaves the attribute set of every function outside
\* the entry set as it was, and the functions that gained the target
\* attribute are exactly the members of the entry set.
C5_GainedExactlyEntries ==
  \A r \in Runs :
    /\ \A f \in DOMAIN r.pre : f \notin r.entries => r.post[f] = r.pre[f]
    /\ Gained(r) = r.entries

\* C5, amended: a run leaves the attribute set of every function outside the
\* entry set as it was; the functions that gained the target attribute are
\* exactly the members of the entry set that did not carry it, and a member
\* that carried it keeps its attribute set; a member gains nothing else; the
\* functions of the unit keep their names, bodies and stored order.
C5_FrameOfAnnotation ==
  /\ \A r \in Runs :
       /\ \A f \in DOMAIN r.pre : f \notin r.entries => r.post[f] = r.pre[f]
       /\ r.entries \subseteq DOMAIN r.pre
       /\ Gained(r) = {f \in r.entries : ~BagIn(TargetAttr, r.pre[f])}
       /\ \A f \in r.entries :
            /\ BagIn(TargetAttr, r.pre[f]) => r.post[f] = r.pre[f]
            /\ BagToSet(r.post[f]) = BagToSet(r.pre[f]) \cup {TargetAttr}
            /\ \A a \in BagToSet(r.pre[f]) : r.post[f][a] = r.pre[f][a]
  /\ \A f \in DOMAIN input.fn : fn[f] = input.fn[f]
  /\ driver = "rerun" => SubSeq(M, 1, Len(input.M)) = input.M

C5_Witness ==
  \E r \in Runs :
    /\ Gained(r) # {}
    /\ \E f \in DOMAIN r.pre : f \notin r.entries /\ r.pre[f] # EmptyBag
    /\ \E f \in DOMAIN r.pre :
         f \notin r.entries /\ CallsDirectly(f, KernelInitName)

\* C6: a run writes exactly one line and performs exactly one annotation for
\* each member of the entry set and none for any other function, however
\* many call sites the member has; the lines are as many as the members.
C6_OneLinePerEntry ==
  \A r \in Runs :
    /\ Len(r.lines) = Cardinality(r.entries)
    /\ \A f \in Range(r.M) :
         LET mine == {x \in DOMAIN r.lines : r.lines[x] = Line(f)}
             done == IF BagIn(f, r.annotated) THEN r.annotated[f] ELSE 0
         IN IF f \in r.entries
            THEN Cardinality(mine) = 1 /\ done = 1
            ELSE mine = {} /\ done = 0

C6_Witness ==
  \E r \in Runs : \E f \in r.entries :
    /\ Cardinality({x \in DOMAIN fn[f].body :
                      fn[f].body[x].op = "call"
                      /\ fn[fn[f].body[x].to].name = KernelInitName}) = 2
    /\ Cardinality(r.entries) = 2

\* C7: the legacy adapter returns true and the modern adapter returns "no
\* analyses preserved" for every unit, whether or not the entry set is
\* empty; a run with an empty entry set returns like any other.
C7_ConservativeResult ==
  /\ \A r \in Runs :
       /\ r.adapter = "legacy" => r.ret = TRUE
       /\ r.adapter = "modern" => r.ret = "none"
  /\ (pc = "annotate" /\ Targets = <<>>) => ENABLED (runOnModuleReturn \/ runReturn)

C7_Witness ==
  /\ Len(log) = 2
  /\ M = <<>>
  /\ log[1].adapter = "legacy" /\ log[1].entries = {}
  /\ log[2].adapter = "modern" /\ log[2].entries = {}

\* C8: a copy of the unit stored in a permuted order has the same entry set
\* and the same annotated functions as the unit.
C8_OrderIndependent ==
  Len(log) = 2 =>
    /\ log[1].entries = log[2].entries
    /\ BagToSet(log[1].annotated) = BagToSet(log[2].annotated)
    /\ Gained(log[1]) = Gained(log[2])

C8_Witness ==
  /\ Len(log) = 2
  /\ log[2].perm # [x \in DOMAIN log[2].perm |-> x]
  /\ Cardinality(log[2].entries) = 1
  /\ \E x \in DOMAIN log[1].M :
       log[1].M[x] \in log[1].entries /\ log[2].M[x] \notin log[1].entries

\* The place in the stored order m of the function a line names.
PlaceOf(m, line) == CHOOSE x \in DOMAIN m : Line(m[x]) = line

\* C9: the lines of a run come in the unit's stored function order, for any
\* number of kernel entry functions.
C9_LinesInStoredOrder ==
  \A r \in Runs : \A a, b \in DOMAIN r.lines :
    a < b => PlaceOf(r.M, r.lines[a]) < PlaceOf(r.M, r.lines[b])

\* C10: no attribute set is touched before every function of the unit has
\* been classified; during the scan every attribute set is as the run found
\* it; every classification of a run sees the same pair of declarations.
C10_ScanBeforeAnnotate ==
  /\ annotated # EmptyBag => (pc \in {"annotate", "done"} /\ classified = Range(M))
  /\ pc = "annotate" => classified = Range(M)
  /\ pc = "scan" =>
       /\ \A f \in DOMAIN pre : attrs[f] = pre[f]
       /\ outs = SubSeq(outs, 1, mark)
  /\ Cardinality(resolved) <= 1
  /\ \A d \in resolved :
       /\ d[1] \in Range(M) /\ fn[d[1]].name = KernelInitName
       /\ d[2] \in Range(M) /\ fn[d[2]].name = KernelDeinitName

C10_Witness ==
  /\ pc = "annotate" /\ j > 1
  /\ Cardinality(classified) = 4
  /\ \E f \in DOMAIN pre : attrs[f] # pre[f]
====
